---- MODULE Spec2Model ----
(***************************************************************************)
(* EbayXlister (src/ebay_xlister.py): the in-memory listing store, its CSV *)
(* import, JSON export, console rendering and total value, and the command *)
(* line entry point main().                                                *)
(*                                                                         *)
(* Two specifications:                                                     *)
(*   Spec      an EbayXlister instance driven through its methods in any   *)
(*             order (the class used as a library);                        *)
(*   MainSpec  one run of main() on a command line.                        *)
(*                                                                         *)
(* Representation.  A text is a sequence of one-character strings.  A      *)
(* Python value is a record [ty, s, n]: ty is the Python type, s the text  *)
(* of a str, n the number of an int, or of a float in hundredths (all the  *)
(* decimals of the model have at most two fraction digits, so float        *)
(* arithmetic on them is exact here; rounding, inf and nan are outside the *)
(* model).                                                                 *)
(***************************************************************************)
EXTENDS Integers, Sequences, FiniteSets, TLC

\* ---------------------------------------------------------------- bounds
MaxListings == 3
MaxRows == 2

\* listing.description[:50]
DescLimit == 50

\* ---------------------------------------------------------- Python values
PyNone == [ty |-> "NoneType", s |-> <<>>, n |-> 0]
PyStr(s) == [ty |-> "str", s |-> s, n |-> 0]
PyInt(n) == [ty |-> "int", s |-> <<>>, n |-> n]
PyFloat(h) == [ty |-> "float", s |-> <<>>, n |-> h]

\* bool(v) as `if v:` and `not v` evaluate it
Truthy(v) ==
  CASE v.ty = "NoneType" -> FALSE
    [] v.ty = "str" -> Len(v.s) > 0
    [] OTHER -> v.n # 0

\* the number a Python number stands for, in hundredths
Hundredths(v) == IF v.ty = "int" THEN 100 * v.n ELSE v.n

\* a returned value or a raised exception
Ok(v) == [exc |-> "none", val |-> v]
Raise(e) == [exc |-> e, val |-> PyNone]

\* isinstance(exception e, class c) for the exceptions of the model
IsInstance(e, c) ==
  \/ c = "Exception"
  \/ c = e
  \/ c = "OSError" /\ e \in {"FileNotFoundError", "PermissionError"}

\* a try statement with the except clauses `handlers` catches e
Catches(handlers, e) == \E i \in 1..Len(handlers) : IsInstance(e, handlers[i])

\* the first except clause that matches e
Handler(handlers, e) ==
  handlers[CHOOSE i \in 1..Len(handlers) :
             /\ IsInstance(e, handlers[i])
             /\ \A j \in 1..(i - 1) : ~IsInstance(e, handlers[j])]

\* ------------------------------------------------------- number parsing
Digits == {"0", "1", "2", "3", "4", "5", "6", "7", "8", "9"}

DigitVal(c) ==
  CASE c = "0" -> 0 [] c = "1" -> 1 [] c = "2" -> 2 [] c = "3" -> 3
    [] c = "4" -> 4 [] c = "5" -> 5 [] c = "6" -> 6 [] c = "7" -> 7
    [] c = "8" -> 8 [] c = "9" -> 9

IsDigits(s) == Len(s) > 0 /\ \A i \in 1..Len(s) : s[i] \in Digits

RECURSIVE NatVal(_)
NatVal(s) ==
  IF Len(s) = 0 THEN 0
  ELSE 10 * NatVal(SubSeq(s, 1, Len(s) - 1)) + DigitVal(s[Len(s)])

Unsigned(s) == IF Len(s) > 0 /\ s[1] = "-" THEN Tail(s) ELSE s
Sign(s) == IF Len(s) > 0 /\ s[1] = "-" THEN -1 ELSE 1

\* positions of the decimal point
Points(s) == {i \in 1..Len(s) : s[i] = "."}

\* the text is a decimal literal [-]digits[.digits] with at most two
\* fraction digits (the literals of the model; float() accepts more forms)
IsDecimal(s) ==
  LET u == Unsigned(s) IN
  IF Points(u) = {} THEN IsDigits(u)
  ELSE /\ Cardinality(Points(u)) = 1
       /\ LET p == CHOOSE i \in Points(u) : TRUE IN
          /\ IsDigits(SubSeq(u, 1, p - 1))
          /\ IsDigits(SubSeq(u, p + 1, Len(u)))
          /\ Len(u) - p <= 2

DecimalHundredths(s) ==
  LET u == Unsigned(s) IN
  IF Points(u) = {} THEN Sign(s) * 100 * NatVal(u)
  ELSE LET p == CHOOSE i \in Points(u) : TRUE
           frac == SubSeq(u, p + 1, Len(u))
       IN Sign(s) * (100 * NatVal(SubSeq(u, 1, p - 1))
                     + (IF Len(frac) = 1 THEN 10 * NatVal(frac) ELSE NatVal(frac)))

\* float(x)
float(x) ==
  CASE x.ty = "float" -> Ok(x)
    [] x.ty = "int" -> Ok(PyFloat(100 * x.n))
    [] x.ty = "str" -> IF IsDecimal(x.s) THEN Ok(PyFloat(DecimalHundredths(x.s)))
                       ELSE Raise("ValueError")
    [] OTHER -> Raise("TypeError")

\* int(x)
int(x) ==
  CASE x.ty = "int" -> Ok(x)
    [] x.ty = "str" -> IF IsDigits(Unsigned(x.s))
                       THEN Ok(PyInt(Sign(x.s) * NatVal(Unsigned(x.s))))
                       ELSE Raise("ValueError")
    [] OTHER -> Raise("TypeError")

\* ------------------------------------------------------------- listings
\* datetime.now().isoformat(): the clock advances with every reading, t
\* is the number of the reading
isoformat(t) == <<"T", CHOOSE c \in Digits : DigitVal(c) = t>>

\* EbayListing.__init__ at clock reading t
EbayListing(title, price, description, category, condition, quantity, t) ==
  [title |-> title, price |-> price, description |-> description,
   category |-> category, condition |-> condition, quantity |-> quantity,
   created_at |-> PyStr(isoformat(t))]

DefaultDescription == PyStr(<<>>)
DefaultCategory == PyStr(<<>>)
DefaultCondition == PyStr(<<"N", "e", "w">>)
DefaultQuantity == PyInt(1)

\* the keys of to_dict, in order
Keys == <<"title", "price", "description", "category", "condition",
          "quantity", "created_at">>

\* str[:n]
Slice(s, n) == SubSeq(s, 1, IF Len(s) < n THEN Len(s) ELSE n)

\* ------------------------------------------------------------ CSV sources
\* what open(filepath, 'r') finds at the path: no file ("missing"), a file
\* that cannot be opened ("denied"), or a file with a header row and rows
Missing == [kind |-> "missing", header |-> <<>>, rows |-> <<>>]
Denied == [kind |-> "denied", header |-> <<>>, rows |-> <<>>]

LongDescription == [i \in 1..(DescLimit + 1) |-> "d"]

Headers == {<<"title", "price">>,
            <<"description", "quantity">>,
            <<"category", "condition">>}

\* the field texts a source may hold in a column
FieldTexts(col) ==
  CASE col = "title" -> {<<"W">>}
    [] col = "price" -> {<<"1", ".", "5">>, <<"a", "b", "c">>}
    [] col = "quantity" -> {<<"3">>, <<"x">>}
    [] col = "description" -> {LongDescription}
    [] col = "category" -> {<<"T">>}
    [] col = "condition" -> {<<"U">>}

AllTexts == UNION {FieldTexts(h[i]) : h \in Headers, i \in 1..2}

\* the rows under header h: every field filled, or cut short after any
\* number of fields (cut after none: a blank line)
Rows(h) ==
  {SubSeq(r, 1, n) :
     r \in {f \in [1..Len(h) -> AllTexts] : \A i \in 1..Len(h) : f[i] \in FieldTexts(h[i])},
     n \in 0..Len(h)}

SeqsUpTo(S, n) == UNION {[1..k -> S] : k \in 0..n}

Sources ==
  {Missing, Denied} \cup
  UNION {{[kind |-> "file", header |-> h, rows |-> rs] :
            rs \in SeqsUpTo(Rows(h), MaxRows)} : h \in Headers}

\* open(filepath, 'r', ...): the exception it raises, or "none"
open_read(source) ==
  CASE source.kind = "missing" -> "FileNotFoundError"
    [] source.kind = "denied" -> "PermissionError"
    [] OTHER -> "none"

Range(f) == {f[i] : i \in DOMAIN f}
Index(h, col) == CHOOSE i \in 1..Len(h) : h[i] = col

\* csv.DictReader.__next__ on one non-blank row: the fields zipped with the
\* header's names, the names the row is too short for mapped to None
RowDict(h, row) ==
  [col \in Range(h) |->
     IF Index(h, col) <= Len(row) THEN PyStr(row[Index(h, col)]) ELSE PyNone]

\* blank lines are skipped by DictReader
RECURSIVE NonBlank(_)
NonBlank(rows) ==
  IF rows = <<>> THEN <<>>
  ELSE IF Head(rows) = <<>> THEN NonBlank(Tail(rows))
  ELSE <<Head(rows)>> \o NonBlank(Tail(rows))

\* a mutant of DictReader: the first data row is consumed with the header
DictReaderDropsFirstRow(source) ==
  LET data == NonBlank(source.rows) IN
  [i \in 1..(Len(data) - 1) |-> RowDict(source.header, data[i + 1])]

\* csv.DictReader(csvfile): the dicts `for row in reader` yields
DictReader(source) ==
  LET data == NonBlank(source.rows) IN
  [i \in 1..Len(data) |-> RowDict(source.header, data[i])]

\* row.get(key, default)
get(row, key, default) == IF key \in DOMAIN row THEN row[key] ELSE default

\* ------------------------------------------------------------- the store
\* a mutant of add_listing: the listing is put in front
add_listing_front(ls, l) == <<l>> \o ls

\* EbayXlister.add_listing
add_listing(ls, l) == Append(ls, l)

\* the body of `for row in reader`, from row i on: the store, the count
\* and the exception that ended the loop ("none": the rows ran out); now
\* is the number of clock readings taken before the call
RECURSIVE ImportRows(_, _, _, _, _)
ImportRows(ls, dicts, now, i, count) ==
  IF i > Len(dicts) THEN [listings |-> ls, count |-> count, exc |-> "none"]
  ELSE LET row == dicts[i]
           price == float(get(row, "price", PyInt(0)))
           quantity == int(get(row, "quantity", PyInt(1)))
       IN IF price.exc # "none"
          THEN [listings |-> ls, count |-> count, exc |-> price.exc]
          ELSE IF quantity.exc # "none"
          THEN [listings |-> ls, count |-> count, exc |-> quantity.exc]
          ELSE ImportRows(
                 add_listing(ls,
                   EbayListing(get(row, "title", PyStr(<<>>)), price.val,
                               get(row, "description", PyStr(<<>>)),
                               get(row, "category", PyStr(<<>>)),
                               get(row, "condition", DefaultCondition),
                               quantity.val, now + count + 1)),
                 dicts, now, i + 1, count + 1)

\* a mutant of ImportHandlers: only the missing file is caught
ImportHandlersNotFoundOnly == <<"FileNotFoundError">>

\* a mutant of ImportHandlers: only parse errors are caught
ImportHandlersValueOnly == <<"ValueError", "TypeError">>

\* the except clauses of import_from_csv
ImportHandlers == <<"FileNotFoundError", "Exception">>

\* EbayXlister.import_from_csv on the source at filepath, after now
\* readings of the clock
import_from_csv(ls, source, now) ==
  LET o == open_read(source)
      body == IF o # "none" THEN [listings |-> ls, count |-> 0, exc |-> o]
              ELSE ImportRows(ls, DictReader(source), now, 1, 0)
  IN IF body.exc = "none"
     THEN [listings |-> body.listings, msg |-> "imported",
           count |-> body.count, escaped |-> "none", readings |-> body.count]
     ELSE IF Catches(ImportHandlers, body.exc)
     THEN [listings |-> body.listings,
           msg |-> IF Handler(ImportHandlers, body.exc) = "FileNotFoundError"
                   THEN "not_found" ELSE "error_importing",
           count |-> 0, escaped |-> "none", readings |-> body.count]
     ELSE [listings |-> body.listings, msg |-> "none",
           count |-> 0, escaped |-> body.exc, readings |-> body.count]

\* ------------------------------------------------------------ JSON export
\* json.dump of one value: a JSON token.  A float is written by repr with a
\* fraction or exponent part (frac), an int without
json_encode(v) ==
  CASE v.ty = "str" -> [j |-> "string", s |-> v.s, n |-> 0, frac |-> FALSE]
    [] v.ty = "int" -> [j |-> "number", s |-> <<>>, n |-> v.n, frac |-> FALSE]
    [] v.ty = "float" -> [j |-> "number", s |-> <<>>, n |-> v.n, frac |-> TRUE]
    [] OTHER -> [j |-> "null", s |-> <<>>, n |-> 0, frac |-> FALSE]

\* json.load of one token
json_decode(t) ==
  CASE t.j = "string" -> PyStr(t.s)
    [] t.j = "number" -> IF t.frac THEN PyFloat(t.n) ELSE PyInt(t.n)
    [] OTHER -> PyNone

\* a mutant of to_dict: the description cut as list_all cuts it
to_dict_truncated(l) ==
  [k \in Range(Keys) |->
     IF k = "description" /\ l[k].ty = "str"
     THEN PyStr(Slice(l[k].s, DescLimit)) ELSE l[k]]

\* EbayListing.to_dict
to_dict(l) == [k \in Range(Keys) |-> l[k]]

\* json.dump(data, jsonfile, indent=2): an array of objects, each the
\* members of the dict in its key order
json_dump(data) ==
  [i \in 1..Len(data) |->
     [k \in 1..Len(Keys) |->
        [key |-> Keys[k], value |-> json_encode(data[i][Keys[k]])]]]

\* json.load of a written array
json_load(text) ==
  [i \in 1..Len(text) |->
     [key \in {text[i][k].key : k \in 1..Len(text[i])} |->
        json_decode(text[i][CHOOSE k \in 1..Len(text[i]) : text[i][k].key = key].value)]]

\* the destination paths of the model: the empty path and a named file
EmptyPath == <<>>
Paths == {EmptyPath, <<"p">>}

\* open(filepath, 'w', ...): the exception it raises, or "none"
open_write(filepath, writable) ==
  IF filepath = EmptyPath THEN "FileNotFoundError"
  ELSE IF ~writable THEN "PermissionError"
  ELSE "none"

\* the except clause of export_to_json
ExportHandlers == <<"Exception">>

\* EbayXlister.export_to_json; file is what stands for nothing written
export_to_json(ls, filepath, writable, file) ==
  LET data == [i \in 1..Len(ls) |-> to_dict(ls[i])]
      o == open_write(filepath, writable)
  IN IF o = "none"
     THEN [json |-> [exists |-> TRUE, text |-> json_dump(data)],
           msg |-> "exported", count |-> Len(ls), escaped |-> "none"]
     ELSE IF Catches(ExportHandlers, o)
     THEN [json |-> file, msg |-> "error_exporting", count |-> 0, escaped |-> "none"]
     ELSE [json |-> file, msg |-> "none", count |-> 0, escaped |-> o]

\* --------------------------------------------------------------- display
Ellipsis == <<".", ".", ".">>

\* the lines list_all prints for listing number idx: the summary of
\* __str__ (title, price to two decimals, condition), the description line
\* when the description is truthy, the category and quantity line
Entry(idx, l) ==
  [idx |-> idx, title |-> l.title, price |-> l.price, condition |-> l.condition,
   has_description |-> Truthy(l.description),
   description |-> IF Truthy(l.description)
                   THEN Slice(l.description.s, DescLimit) \o Ellipsis ELSE <<>>,
   category |-> l.category, quantity |-> l.quantity]

\* what the console shows when nothing was listed yet
NoDisplay == [notice |-> FALSE, total |-> 0, entries |-> <<>>]

\* EbayXlister.list_all: the "No listings found." notice, or the header
\* with the total and one entry per listing, numbered from 1
list_all(ls) ==
  IF Len(ls) = 0 THEN [notice |-> TRUE, total |-> 0, entries |-> <<>>]
  ELSE [notice |-> FALSE, total |-> Len(ls),
        entries |-> [i \in 1..Len(ls) |-> Entry(i, ls[i])]]

\* ----------------------------------------------------------- total value
\* a * b and a + b on Python numbers (int with int stays int; the store
\* only multiplies a float price by an int quantity)
Mul(a, b) ==
  IF a.ty = "int" /\ b.ty = "int" THEN PyInt(a.n * b.n)
  ELSE IF a.ty = "float" /\ b.ty = "float" THEN PyFloat((a.n * b.n) \div 100)
  ELSE PyFloat(a.n * b.n)

Add(a, b) ==
  IF a.ty = "int" /\ b.ty = "int" THEN PyInt(a.n + b.n)
  ELSE PyFloat(Hundredths(a) + Hundredths(b))

\* a mutant of Term: the quantity is left out
TermPriceOnly(l) == l.price

\* listing.price * listing.quantity
Term(l) == Mul(l.price, l.quantity)

\* sum(...) over the listings from index i on, acc the sum so far
RECURSIVE SumFrom(_, _, _)
SumFrom(ls, i, acc) ==
  IF i > Len(ls) THEN acc ELSE SumFrom(ls, i + 1, Add(acc, Term(ls[i])))

\* EbayXlister.get_total_value
get_total_value(ls) == SumFrom(ls, 1, PyInt(0))

\* ---------------------------------------------------------------- state
VARIABLES
  listings,  \* EbayXlister.listings
  clock,     \* the number of readings of datetime.now() so far
  op,        \* the method called last
  pre,       \* listings when that call began
  src,       \* what that call opened for reading (import_from_csv)
  msg,       \* the message that call printed last
  count,     \* the count in that message
  ret,       \* the value that call returned (get_total_value)
  escaped,   \* the exception that call raised to its caller, or "none"
  shown,     \* the rendering that call printed (list_all)
  json,      \* what that call wrote to its destination (export_to_json)
  pc,        \* main: the step to run next ("library": no main running)
  argv,      \* main: the command line not yet parsed
  args,      \* main: the namespace parse_args returned
  ran,       \* main: the steps whose block was entered, in order
  failed     \* main: the steps that reported a failure

cmd == <<pc, argv, args, ran, failed>>
vars == <<listings, clock, op, pre, src, msg, count, ret, escaped, shown, json,
          pc, argv, args, ran, failed>>

NoSource == [kind |-> "none", header |-> <<>>, rows |-> <<>>]
NoFile == [exists |-> FALSE, text |-> <<>>]
NoArgs == [csv_file |-> PyNone, json_file |-> PyNone, list |-> FALSE,
           add |-> [given |-> FALSE, toks |-> <<>>]]

\* EbayXlister.__init__, nothing called yet
InitStore ==
  /\ listings = <<>>
  /\ clock = 0
  /\ op = "init"
  /\ pre = <<>>
  /\ src = NoSource
  /\ msg = "none"
  /\ count = 0
  /\ ret = PyNone
  /\ escaped = "none"
  /\ shown = NoDisplay
  /\ json = NoFile

\* ------------------------------------------------------- the store's calls
\* xlister.add_listing(l)
CallAddListing(l) ==
  /\ listings' = add_listing(listings, l)
  /\ clock' = clock + 1
  /\ op' = "add_listing"
  /\ pre' = listings
  /\ src' = NoSource
  /\ msg' = "added"
  /\ count' = 0
  /\ ret' = PyNone
  /\ escaped' = "none"
  /\ shown' = NoDisplay
  /\ json' = NoFile

\* xlister.import_from_csv(filepath), source being what is at filepath
CallImportFromCsv(source) ==
  LET r == import_from_csv(listings, source, clock) IN
  /\ listings' = r.listings
  /\ clock' = clock + r.readings
  /\ op' = "import_from_csv"
  /\ pre' = listings
  /\ src' = source
  /\ msg' = r.msg
  /\ count' = r.count
  /\ ret' = PyNone
  /\ escaped' = r.escaped
  /\ shown' = NoDisplay
  /\ json' = NoFile

\* xlister.export_to_json(filepath)
CallExportToJson(filepath, writable) ==
  LET r == export_to_json(listings, filepath, writable, NoFile) IN
  /\ listings' = listings
  /\ clock' = clock
  /\ op' = "export_to_json"
  /\ pre' = listings
  /\ src' = NoSource
  /\ msg' = r.msg
  /\ count' = r.count
  /\ ret' = PyNone
  /\ escaped' = r.escaped
  /\ shown' = NoDisplay
  /\ json' = r.json

\* xlister.list_all()
CallListAll ==
  /\ listings' = listings
  /\ clock' = clock
  /\ op' = "list_all"
  /\ pre' = listings
  /\ src' = NoSource
  /\ msg' = "listed"
  /\ count' = 0
  /\ ret' = PyNone
  /\ escaped' = "none"
  /\ shown' = list_all(listings)
  /\ json' = NoFile

\* xlister.get_total_value()
CallGetTotalValue ==
  /\ listings' = listings
  /\ clock' = clock
  /\ op' = "get_total_value"
  /\ pre' = listings
  /\ src' = NoSource
  /\ msg' = "none"
  /\ count' = 0
  /\ ret' = get_total_value(listings)
  /\ escaped' = "none"
  /\ shown' = NoDisplay
  /\ json' = NoFile

\* what open() may find at a path: nothing at the empty path
SourcesAt(filepath) == IF filepath = EmptyPath THEN {Missing} ELSE Sources

\* the listings a caller of the class constructs at reading t
NewListings(t) ==
  {EbayListing(PyStr(<<"G">>), PyFloat(200), DefaultDescription,
               DefaultCategory, DefaultCondition, q, t) :
     q \in {DefaultQuantity, PyInt(2)}}

\* --------------------------------------------- the class used as a library
AddListing ==
  /\ pc = "library"
  /\ Len(listings) < MaxListings
  /\ \E l \in NewListings(clock + 1) : CallAddListing(l)
  /\ UNCHANGED cmd

ImportFromCsv ==
  /\ pc = "library"
  /\ \E filepath \in Paths : \E source \in SourcesAt(filepath) :
       /\ Len(listings) + Len(source.rows) <= MaxListings
       /\ CallImportFromCsv(source)
  /\ UNCHANGED cmd

ExportToJson ==
  /\ pc = "library"
  /\ \E filepath \in Paths, writable \in BOOLEAN :
       CallExportToJson(filepath, writable)
  /\ UNCHANGED cmd

ListAll ==
  /\ pc = "library"
  /\ CallListAll
  /\ UNCHANGED cmd

GetTotalValue ==
  /\ pc = "library"
  /\ CallGetTotalValue
  /\ UNCHANGED cmd

Init ==
  /\ InitStore
  /\ pc = "library"
  /\ argv = <<>>
  /\ args = NoArgs
  /\ ran = <<>>
  /\ failed = {}

Next ==
  \/ AddListing
  \/ ImportFromCsv
  \/ ExportToJson
  \/ ListAll
  \/ GetTotalValue

Spec == Init /\ [][Next]_vars

\* ------------------------------------------------------------------ main
\* The command line: options in any order, each flag at most once.  An
\* option is a flag with the argument strings that follow it.
Option(flag, vals) == [flag |-> flag, vals |-> vals]

AddTokens == {<<>>, <<<<"G">>>>, <<<<"G">>, <<"2">>>>, <<<<"G">>, <<"a", "b", "c">>>>,
              <<<<"G">>, <<"2">>, <<"n">>>>}

Options ==
  {Option("--import-csv", <<p>>) : p \in Paths} \cup
  {Option("--export-json", <<p>>) : p \in Paths} \cup
  {Option("--list", <<>>)} \cup
  {Option("--add", toks) : toks \in AddTokens}

Argvs ==
  {a \in SeqsUpTo(Options, 4) :
     \A i, j \in 1..Len(a) : i # j => a[i].flag # a[j].flag}

\* parser.parse_args() exits with a usage error: --add (nargs='+') was
\* given no argument
UsageError(a) == \E i \in 1..Len(a) : a[i].flag = "--add" /\ a[i].vals = <<>>

\* the namespace after option o is stored into it
Store(ns, o) ==
  CASE o.flag = "--import-csv" -> [ns EXCEPT !.csv_file = PyStr(o.vals[1])]
    [] o.flag = "--export-json" -> [ns EXCEPT !.json_file = PyStr(o.vals[1])]
    [] o.flag = "--list" -> [ns EXCEPT !.list = TRUE]
    [] o.flag = "--add" -> [ns EXCEPT !.add = [given |-> TRUE, toks |-> o.vals]]

\* parser.parse_args(): the defaults, then each option in turn
RECURSIVE parse_args(_)
parse_args(a) ==
  IF a = <<>> THEN NoArgs
  ELSE Store(parse_args(SubSeq(a, 1, Len(a) - 1)), a[Len(a)])

\* `if args.add:` on None or a list
AddTruthy(ns) == ns.add.given /\ Len(ns.add.toks) > 0

\* a mutant of After: the export is run before the add
AfterExportEarly(step) ==
  CASE step = "parse" -> "import"
    [] step = "import" -> "export"
    [] step = "export" -> "add"
    [] step = "add" -> "list"
    [] step = "list" -> "done"

\* the step main runs after step
After(step) ==
  CASE step = "parse" -> "import"
    [] step = "import" -> "add"
    [] step = "add" -> "list"
    [] step = "list" -> "export"
    [] step = "export" -> "done"

\* where main goes after a step whose call raised e to it
Continue(step, e) == IF e = "none" THEN After(step) ELSE "crashed"

\* a mutant of AddHandlers: the ValueError of float() is not caught
AddHandlersNone == <<>>

\* the except clause around main's float(args.add[1])
AddHandlers == <<"ValueError">>

\* main's condition for the listing display
ListCondition(ns) ==
  ns.list \/ (~Truthy(ns.csv_file) /\ ~AddTruthy(ns) /\ ~Truthy(ns.json_file))

\* args = parser.parse_args(); xlister = EbayXlister()
MainParse ==
  /\ pc = "parse"
  /\ IF UsageError(argv)
     THEN pc' = "usage" /\ args' = args
     ELSE pc' = After("parse") /\ args' = parse_args(argv)
  /\ argv' = <<>>
  /\ UNCHANGED <<listings, clock, op, pre, src, msg, count, ret, escaped,
                 shown, json, ran, failed>>

\* if args.csv_file: xlister.import_from_csv(args.csv_file)
MainImport ==
  /\ pc = "import"
  /\ IF Truthy(args.csv_file)
     THEN /\ \E source \in SourcesAt(args.csv_file.s) : CallImportFromCsv(source)
          /\ ran' = Append(ran, "import")
          /\ failed' = IF msg' = "imported" THEN failed ELSE failed \cup {"import"}
          /\ pc' = Continue("import", escaped')
     ELSE /\ pc' = After("import")
          /\ UNCHANGED <<listings, clock, op, pre, src, msg, count, ret,
                         escaped, shown, json, ran, failed>>
  /\ UNCHANGED <<argv, args>>

\* what main prints when it rejects the add
RejectAdd(m, e) ==
  /\ msg' = m
  /\ escaped' = e
  /\ op' = "main_add"
  /\ pre' = listings
  /\ src' = NoSource
  /\ count' = 0
  /\ ret' = PyNone
  /\ shown' = NoDisplay
  /\ json' = NoFile
  /\ UNCHANGED <<listings, clock>>

\* if args.add: ... the add block of main
MainAdd ==
  /\ pc = "add"
  /\ IF AddTruthy(args)
     THEN /\ ran' = Append(ran, "add")
          /\ IF Len(args.add.toks) >= 2
             THEN LET title == PyStr(args.add.toks[1])
                      price == float(PyStr(args.add.toks[2]))
                      description == IF Len(args.add.toks) > 2
                                     THEN PyStr(args.add.toks[3])
                                     ELSE DefaultDescription
                  IN IF price.exc = "none"
                     THEN /\ CallAddListing(
                               EbayListing(title, price.val, description,
                                           DefaultCategory, DefaultCondition,
                                           DefaultQuantity, clock + 1))
                          /\ failed' = failed
                     ELSE IF Catches(AddHandlers, price.exc)
                     THEN /\ RejectAdd("price_error", "none")
                          /\ failed' = failed \cup {"add"}
                     ELSE /\ RejectAdd("none", price.exc)
                          /\ failed' = failed \cup {"add"}
             ELSE /\ RejectAdd("add_usage", "none")
                  /\ failed' = failed \cup {"add"}
          /\ pc' = Continue("add", escaped')
     ELSE /\ pc' = After("add")
          /\ UNCHANGED <<listings, clock, op, pre, src, msg, count, ret,
                         escaped, shown, json, ran, failed>>
  /\ UNCHANGED <<argv, args>>

\* if args.list or (...): list_all(), then the total when there are listings
MainList ==
  /\ pc = "list"
  /\ IF ListCondition(args)
     THEN /\ listings' = listings
          /\ clock' = clock
          /\ op' = "list_all"
          /\ pre' = listings
          /\ src' = NoSource
          /\ msg' = IF Len(listings) > 0 THEN "total" ELSE "listed"
          /\ count' = 0
          /\ ret' = IF Len(listings) > 0 THEN get_total_value(listings) ELSE PyNone
          /\ escaped' = "none"
          /\ shown' = list_all(listings)
          /\ json' = NoFile
          /\ ran' = Append(ran, "list")
     ELSE UNCHANGED <<listings, clock, op, pre, src, msg, count, ret,
                      escaped, shown, json, ran>>
  /\ pc' = After("list")
  /\ UNCHANGED <<argv, args, failed>>

\* if args.json_file: xlister.export_to_json(args.json_file)
MainExport ==
  /\ pc = "export"
  /\ IF Truthy(args.json_file)
     THEN /\ \E writable \in BOOLEAN : CallExportToJson(args.json_file.s, writable)
          /\ ran' = Append(ran, "export")
          /\ failed' = IF msg' = "exported" THEN failed ELSE failed \cup {"export"}
          /\ pc' = Continue("export", escaped')
     ELSE /\ pc' = After("export")
          /\ UNCHANGED <<listings, clock, op, pre, src, msg, count, ret,
                         escaped, shown, json, ran, failed>>
  /\ UNCHANGED <<argv, args>>

MainInit ==
  /\ InitStore
  /\ pc = "parse"
  /\ argv \in Argvs
  /\ args = NoArgs
  /\ ran = <<>>
  /\ failed = {}

MainNext ==
  \/ MainParse
  \/ MainImport
  \/ MainAdd
  \/ MainList
  \/ MainExport

MainSpec == MainInit /\ [][MainNext]_vars

\* ----------------------------------------------------------------- claims
IsPrefix(a, b) == Len(a) <= Len(b) /\ SubSeq(b, 1, Len(a)) = a

\* the data rows of a source: its non-blank lines after the header
DataRows(source) == NonBlank(source.rows)

HasColumn(h, col) == \E i \in 1..Len(h) : h[i] = col
HasField(h, row, col) == HasColumn(h, col) /\ Index(h, col) <= Len(row)
FieldText(h, row, col) == row[Index(h, col)]

\* the row's price and quantity convert
Parses(h, row) ==
  /\ float(get(RowDict(h, row), "price", PyInt(0))).exc = "none"
  /\ int(get(RowDict(h, row), "quantity", PyInt(1))).exc = "none"

\* the row holds a price or a quantity that is no number
Malformed(h, row) ==
  \/ /\ HasField(h, row, "price")
     /\ ~IsDecimal(FieldText(h, row, "price"))
  \/ /\ HasField(h, row, "quantity")
     /\ ~IsDigits(Unsigned(FieldText(h, row, "quantity")))

\* no field the row holds is malformed (fields may be missing)
NothingMalformed(h, row) == ~Malformed(h, row)

TextColumns == {"title", "description", "category", "condition"}

\* listing l carries what row holds, column by column
FromRow(l, h, row) ==
  /\ \A col \in TextColumns :
       HasField(h, row, col) => l[col] = PyStr(FieldText(h, row, col))
  /\ HasField(h, row, "price") =>
       l.price = PyFloat(DecimalHundredths(FieldText(h, row, "price")))
  /\ HasField(h, row, "quantity") =>
       l.quantity = PyInt(Sign(FieldText(h, row, "quantity"))
                          * NatVal(Unsigned(FieldText(h, row, "quantity"))))

\* listing l has the default of every column row holds no field for
DefaultsFor(l, h, row) ==
  /\ ~HasField(h, row, "title") => l.title = PyStr(<<>>)
  /\ ~HasField(h, row, "description") => l.description = PyStr(<<>>)
  /\ ~HasField(h, row, "category") => l.category = PyStr(<<>>)
  /\ ~HasField(h, row, "condition") => l.condition = PyStr(<<"N", "e", "w">>)
  /\ ~HasField(h, row, "price") => Hundredths(l.price) = 0
  /\ ~HasField(h, row, "quantity") => l.quantity = PyInt(1)

\* the first k listings added by the last call are those of rows 1..k
AddedFromRows(k) ==
  /\ IsPrefix(pre, listings)
  /\ Len(listings) = Len(pre) + k
  /\ \A j \in 1..k :
       FromRow(listings[Len(pre) + j], src.header, DataRows(src)[j])

\* C1: an import of a readable source whose data rows all parse leaves the
\* store as the prior sequence followed by one listing per data row, in row
\* order, and reports the number of rows as its count.
C1_ImportAppendsOneListingPerRow ==
  (/\ op = "import_from_csv"
   /\ src.kind = "file"
   /\ \A k \in 1..Len(DataRows(src)) : Parses(src.header, DataRows(src)[k]))
  => /\ escaped = "none"
     /\ msg = "imported"
     /\ AddedFromRows(Len(DataRows(src)))
     /\ count = Len(listings) - Len(pre)
     /\ count = Len(DataRows(src))

C1_Witness ==
  /\ op = "import_from_csv"
  /\ src.kind = "file"
  /\ \A k \in 1..Len(DataRows(src)) : Parses(src.header, DataRows(src)[k])
  /\ Len(pre) >= 1
  /\ Len(DataRows(src)) >= 2
  /\ DataRows(src)[1] # DataRows(src)[2]

\* row k is the first data row that does not parse, and it is malformed
FailsAtMalformedRow(k) ==
  /\ k \in 1..Len(DataRows(src))
  /\ Malformed(src.header, DataRows(src)[k])
  /\ ~Parses(src.header, DataRows(src)[k])
  /\ \A j \in 1..(k - 1) : Parses(src.header, DataRows(src)[j])

\* C2: an import that meets a non-numeric price or quantity at row k returns
\* to its caller with a failure reported, and the store is the prior
\* listings followed by the listings of rows 1..k-1.
C2_MalformedRowHaltsImport ==
  \A k \in 1..MaxRows :
    (op = "import_from_csv" /\ src.kind = "file" /\ FailsAtMalformedRow(k))
    => /\ escaped = "none"
       /\ msg = "error_importing"
       /\ AddedFromRows(k - 1)

C2_Witness ==
  /\ op = "import_from_csv"
  /\ src.kind = "file"
  /\ FailsAtMalformedRow(2)
  /\ Len(pre) >= 1
  /\ Len(listings) = Len(pre) + 1

\* C3: an import from a path where no file is reports the failure, returns
\* to its caller and leaves the store as it was.
C3_MissingSourceLeavesStore ==
  (op = "import_from_csv" /\ src.kind = "missing")
  => /\ listings = pre
     /\ msg = "not_found"
     /\ escaped = "none"

C3_Witness ==
  /\ op = "import_from_csv"
  /\ src.kind = "missing"
  /\ Len(pre) >= 2

\* the sum of price times quantity, in hundredths
RECURSIVE SumOfProducts(_)
SumOfProducts(ls) ==
  IF ls = <<>> THEN 0
  ELSE Hundredths(Head(ls).price) * Head(ls).quantity.n + SumOfProducts(Tail(ls))

\* C4: get_total_value returns the sum of price times quantity over the
\* listings held, 0 for an empty store, and leaves the store unchanged.
C4_TotalValueIsSumOfProducts ==
  (op = "get_total_value")
  => /\ ret.ty \in {"int", "float"}
     /\ Hundredths(ret) = SumOfProducts(listings)
     /\ (listings = <<>> => ret = PyInt(0))
     /\ listings = pre

C4_Witness ==
  /\ op = "get_total_value"
  /\ Len(listings) >= 2
  /\ \E i \in 1..Len(listings) :
       listings[i].quantity.n > 1 /\ Hundredths(listings[i].price) > 0
  /\ \E i \in 1..Len(listings) : listings[i].title = PyStr(<<"W">>)

\* the steps of main in their fixed order
Rank(step) ==
  CASE step = "import" -> 1 [] step = "add" -> 2
    [] step = "list" -> 3 [] step = "export" -> 4

Ordered(steps) ==
  \A i, j \in 1..Len(steps) : i < j => Rank(steps[i]) < Rank(steps[j])

\* the written array parses to the fields of the listings ls, in order
Serializes(file, ls) ==
  /\ file.exists
  /\ LET parsed == json_load(file.text) IN
     /\ Len(parsed) = Len(ls)
     /\ \A i \in 1..Len(ls) :
          /\ DOMAIN parsed[i] = Range(Keys)
          /\ \A k \in Range(Keys) : parsed[i][k] = ls[i][k]

\* the rendering names the listings ls, in order
Displays(d, ls) ==
  /\ d.notice = (ls = <<>>)
  /\ d.total = Len(ls)
  /\ Len(d.entries) = Len(ls)
  /\ \A i \in 1..Len(ls) :
       /\ d.entries[i].idx = i
       /\ d.entries[i].title = ls[i].title
       /\ d.entries[i].price = ls[i].price
       /\ d.entries[i].condition = ls[i].condition
       /\ d.entries[i].category = ls[i].category
       /\ d.entries[i].quantity = ls[i].quantity

\* C5: the steps of a run execute in the order import, add, list, export;
\* the list step displays, and the export, performed last, serializes, the
\* store as it stands after the import and add steps.
C5_StepsInFixedOrder ==
  /\ Ordered(ran)
  /\ (pc = "export" /\ "list" \in Range(ran))
     => (op = "list_all" /\ Displays(shown, listings))
  /\ (pc = "done" /\ "export" \in Range(ran))
     => /\ ran[Len(ran)] = "export"
        /\ op = "export_to_json"
        /\ listings = pre
        /\ msg = "exported" => Serializes(json, listings)

C5_Witness ==
  /\ pc = "done"
  /\ ran = <<"import", "add", "list", "export">>
  /\ msg = "exported"
  /\ Len(listings) = 3
  /\ failed = {}

\* the steps after step s that the arguments ask for: the add and the list
\* by their flags, the export by a destination (an empty destination is
\* the case of C9)
RequestedAfter(s) ==
  {t \in {"add", "list", "export"} :
     /\ Rank(s) < Rank(t)
     /\ \/ t = "add" /\ args.add.given
        \/ t = "list" /\ args.list
        \/ t = "export" /\ Truthy(args.json_file)}

C7_ExportRoundTrip ==
  (op = "export_to_json" /\ msg = "exported")
  => /\ Serializes(json, listings)
     /\ listings = pre

C7_Witness ==
  /\ op = "export_to_json"
  /\ msg = "exported"
  /\ Len(listings) >= 2
  /\ \E i \in 1..Len(listings) : Len(listings[i].description.s) > DescLimit
  /\ \E i \in 1..Len(listings) : listings[i].condition = PyNone

\* C8 as claimed: a data row that lacks a recognized column, by the header
\* or by being short, is parsed into a listing with the defaults, and the
\* import goes on.
C8_MissingColumnsTakeDefaults ==
  (/\ op = "import_from_csv"
   /\ src.kind = "file"
   /\ \A k \in 1..Len(DataRows(src)) : NothingMalformed(src.header, DataRows(src)[k]))
  => /\ msg = "imported"
     /\ AddedFromRows(Len(DataRows(src)))
     /\ \A k \in 1..Len(DataRows(src)) :
          DefaultsFor(listings[Len(pre) + k], src.header, DataRows(src)[k])

\* a flag was given on the command line
Given(v) == v.ty # "NoneType"

\* C9 as claimed: the listing is displayed exactly when --list was given or
\* none of --import-csv, --add, --export-json was, whatever their arguments,
\* and every flag given has its step attempted.
C9_ListOnlyByFlagOrDefault ==
  pc = "done" =>
    /\ ("list" \in Range(ran)) <=>
         (args.list \/ ~(Given(args.csv_file) \/ args.add.given \/ Given(args.json_file)))
    /\ Given(args.csv_file) => "import" \in Range(ran)
    /\ args.add.given => "add" \in Range(ran)
    /\ Given(args.json_file) => "export" \in Range(ran)

\* C10: the store only grows: every call leaves the listings it found as a
\* prefix of the listings it leaves, and export, list_all and
\* get_total_value leave them as they were.
C10_StoreOnlyGrows ==
  [][/\ IsPrefix(listings, listings')
     /\ op' \in {"export_to_json", "list_all", "get_total_value"}
          => listings' = listings]_vars

C10_Witness ==
  /\ op = "import_from_csv"
  /\ msg = "error_importing"
  /\ Len(pre) >= 1
  /\ Len(listings) > Len(pre)

====
